---- MODULE Spec2Model ----
(***************************************************************************)
(* Sale-transaction and stock-ledger workflow of the fabric retail API:    *)
(* POST /sales of backend/routes/staff.js against the Product, Sale and    *)
(* StockHistory collections (backend/models).  Every await of the handler  *)
(* is one step of the request: the store operation it waits for, followed  *)
(* by the synchronous code up to the next await.  Several requests run     *)
(* interleaved, as they do on the node event loop.                         *)
(* The product routes of the admin (POST, PUT and DELETE /products) and    *)
(* GET /sales/:id/receipt are modelled the same way; AdminSpec and         *)
(* ReceiptSpec run them next to the sales.                                 *)
(*                                                                         *)
(* Quantities, stocks and prices are JavaScript numbers in the source; the *)
(* model takes them from small ranges of integers.                         *)
(***************************************************************************)
EXTENDS Integers, Sequences, FiniteSets, TLC

\* ---- bounds of the model ------------------------------------------------
MaxStock == 2       \* currentStock of product p1 when the requests arrive
MaxQty == 2         \* a line item asks for 1 or for MaxQty units
MaxItems == 2       \* line items of the first request, 0..MaxItems
MaxDiscount == 2    \* discount of the first request, 0 or MaxDiscount
MaxSuffix == 1      \* random suffixes are 0..MaxSuffix (the source: 0..999)

\* ---- program constants --------------------------------------------------
maxAttempts == 10

Requests == {1, 2}                 \* concurrent POST /sales requests
ProductIds == {"p1", "p2"}         \* ids a request can name
Suffixes == 0..MaxSuffix
Today == [year |-> 2024, month |-> 3, day |-> 15]

\* req.user._id of the authenticated caller of request r
UserOf(r) == IF r = 1 THEN "u1" ELSE "u2"

VARIABLES products, sales, stockHistory, req, obs, adm, fetch,
          gen, users, ureq, catalog, cart

vars == <<products, sales, stockHistory, req, obs, adm, fetch,
          gen, users, ureq, catalog, cart>>

\* what lives beside the stores of the shop: a sale number being made, the
\* users and the user requests of the admins, and the sales screen of a
\* browser (the products it has fetched and its cart)
aside == <<gen, users, ureq, catalog, cart>>

\* what the admin routes and the receipt route keep: the admin request in
\* progress and the last receipt response
shop == <<adm, fetch>>

\* ---- pure helpers -------------------------------------------------------

\* a conversion that does not pad
PadStart_NoPad(n, width) == ToString(n)

\* String(n).padStart(width, '0') for 0 <= n < 1000 and width in {2, 3}
PadStart(n, width) ==
    IF width = 3 /\ n < 10 THEN "00" \o ToString(n)
    ELSE IF width = 3 /\ n < 100 THEN "0" \o ToString(n)
    ELSE IF width = 2 /\ n < 10 THEN "0" \o ToString(n)
    ELSE ToString(n)

\* `RF${year}${month}${day}${random}`
MakeSaleNumber(date, random) ==
    "RF" \o ToString(date.year) \o PadStart(date.month, 2)
         \o PadStart(date.day, 2) \o PadStart(random, 3)

\* Sale.findOne({ saleNumber }): is there a persisted sale with this number
ExistingSale(saleNumber) ==
    \E i \in 1..Len(sales) : sales[i].saleNumber = saleNumber

\* line items request r can carry: the first request any number up to
\* MaxItems, its competitor one
MaxItemsOf(r) == IF r = 1 THEN MaxItems ELSE 1

\* quantities a line item can ask for
Quantities == {1, MaxQty}

\* a price the client puts into a line item of the body; no validator of
\* the route looks at it
ClientPrices == {0}

\* the request bodies of r that pass the field validators of the route
\* (items: [{ productId, quantity }], quantity > 0), the empty list added
ItemLists(r) ==
    UNION { [1..n -> [productId : ProductIds, quantity : Quantities,
                      unitPrice : ClientPrices]] :
              n \in 0..MaxItemsOf(r) }

\* discounts request r can carry: the first request none or MaxDiscount,
\* its competitor none
Discounts(r) == IF r = 1 THEN {0, MaxDiscount} ELSE {0}

NoResponse == [status |-> 0, message |-> "", at |-> 0, error |-> ""]

\* no admin request in progress; n counts the admin requests so far
IdleAdm == [pc |-> "idle", n |-> 0, res |-> [status |-> 0, message |-> ""]]

\* no sale number is being made
NoGen == [date |-> Today, random |-> 0, saleNumber |-> "", by |-> ""]

\* the user store and the user requests when only the shop is looked at
NoUsers == <<>>
NoUserRequests == <<>>

\* no receipt was asked for yet
NoFetch == [user |-> "", id |-> 0, status |-> 0, nth |-> 0]

IdleReq ==
    [pc |-> "idle", items |-> <<>>, discount |-> 0, idx |-> 0,
     saleItems |-> <<>>, totalAmount |-> 0, finalAmount |-> 0,
     saleNumber |-> "", attempts |-> 0,
     previousStock |-> 0, currentStock |-> 0, res |-> NoResponse]

\* res.status(status).json({ message }) ends the handler: its locals are
\* gone, the request body and the response stay to be looked at.  `at` is
\* the line item the message names, `error` the exception the catch logged.
Respond(r, status, message, at, error) ==
    [IdleReq EXCEPT !.pc = "done",
                    !.items = req[r].items,
                    !.discount = req[r].discount,
                    !.res = [status |-> status, message |-> message,
                             at |-> at, error |-> error]]

\* What a step of request r shows of it: the choice of the sale number, the
\* insert of the Sale, the save of a Product that went through (it may
\* store the value the store holds already) and the insert of a
\* StockHistory entry are added to its trace as they happen; every other
\* request is no longer alone.
Observe(r) ==
    [q \in Requests |->
        IF q = r
        THEN [obs[q] EXCEPT !.trace = obs[q].trace
                 \o (IF req[r].pc = "generate" /\ req'[r].pc = "saveSale"
                     THEN <<"number">> ELSE <<>>)
                 \o (IF sales' # sales THEN <<"sale">> ELSE <<>>)
                 \o (IF req[r].pc = "saveProduct" /\ req'[r].pc = "saveHistory"
                     THEN <<"stock">> ELSE <<>>)
                 \o (IF stockHistory' # stockHistory THEN <<"history">> ELSE <<>>)]
        ELSE [obs[q] EXCEPT !.alone = FALSE]]

NoObs == [before |-> [p \in ProductIds |-> [present |-> FALSE]],
          alone |-> FALSE, trace |-> <<>>]

TypeOK ==
    /\ \A p \in ProductIds : products[p].currentStock \in Int
    /\ \A r \in Requests : req[r].pc \in
         {"idle", "validate", "generate", "saveSale", "findProduct",
          "saveProduct", "saveHistory", "populate", "done"}

\* The stores when the requests arrive: product p1 on sale with MaxStock
\* units at price 1; product p2 with one unit at price 2, on sale, soft
\* deleted, or not in the store at all; no sale yet.
StoreInit ==
    /\ \E present \in BOOLEAN, isActive \in BOOLEAN :
         /\ ~present => isActive
         /\ products =
              [p \in ProductIds |->
                 IF p = "p1"
                 THEN [present |-> TRUE, isActive |-> TRUE,
                       name |-> "Ankara", totalStock |-> MaxStock,
                       currentStock |-> MaxStock, pricePerUnit |-> 1,
                       minStockLevel |-> 1]
                 ELSE [present |-> present, isActive |-> isActive,
                       name |-> "Silk", totalStock |-> 1,
                       currentStock |-> 1, pricePerUnit |-> 2,
                       minStockLevel |-> 1]]
    /\ sales = <<>>
    /\ stockHistory = <<>>
    /\ req = [r \in Requests |-> IdleReq]
    /\ obs = [r \in Requests |-> NoObs]
    /\ adm = IdleAdm
    /\ fetch = NoFetch

\* nothing goes on beside the stores
AsideIdle ==
    /\ gen = NoGen
    /\ users = NoUsers
    /\ ureq = NoUserRequests
    /\ catalog = <<>>
    /\ cart = <<>>

Init == StoreInit /\ AsideIdle

\* POST /sales arrives: the validators run, the body is destructured and
\* the handler issues the first Product.findById
Arrive(r, items, discount) ==
    /\ req[r].pc = "idle"
    /\ req' = [req EXCEPT ![r] =
          IF Len(items) = 0
          THEN [IdleReq EXCEPT !.pc = "done", !.items = items,
                   !.discount = discount,
                   !.res = [status |-> 400, at |-> 0, error |-> "",
                            message |-> "At least one item is required"]]
          ELSE [req[r] EXCEPT !.pc = "validate", !.items = items,
                              !.discount = discount, !.idx = 1]]
    /\ obs' = [q \in Requests |->
                 IF q = r
                 THEN [before |-> products, alone |-> TRUE, trace |-> <<>>]
                 ELSE [obs[q] EXCEPT !.alone = FALSE]]
    /\ UNCHANGED <<products, sales, stockHistory>>
    /\ UNCHANGED shop
    /\ UNCHANGED aside

\* a POST /sales of the bodies request r can carry
Start(r) ==
    \E items \in ItemLists(r), discount \in Discounts(r) :
        Arrive(r, items, discount)

\* a handler whose catch block undoes the writes of the request
StoreFails_RollsBack(r) ==
    /\ req[r].pc \in {"validate", "generate", "saveSale", "findProduct",
                      "saveProduct", "saveHistory", "populate"}
    /\ req' = [req EXCEPT ![r] =
          Respond(r, 500, "Server error during sale", 0, "StoreError")]
    /\ sales' = SelectSeq(sales, LAMBDA s : s.id # r)
    /\ stockHistory' = SelectSeq(stockHistory, LAMBDA h : h.sale # r)
    /\ UNCHANGED products
    /\ UNCHANGED shop
    /\ UNCHANGED aside
    /\ obs' = Observe(r)

\* a store operation the handler awaits rejects (connection or server
\* error): the outer catch answers 500, the catch around the sale-number
\* loop answers 500 with its own message
StoreFails(r) ==
    /\ req[r].pc \in {"validate", "generate", "saveSale", "findProduct",
                      "saveProduct", "saveHistory", "populate"}
    /\ req' = [req EXCEPT ![r] =
          IF req[r].pc = "generate"
          THEN Respond(r, 500, "Error generating sale number", 0, "StoreError")
          ELSE Respond(r, 500, "Server error during sale", 0, "StoreError")]
    /\ UNCHANGED <<products, sales, stockHistory>>
    /\ UNCHANGED shop
    /\ UNCHANGED aside
    /\ obs' = Observe(r)

\* the checks with the stock compared before isActive is looked at
CheckItem_StockFirst(product, item) ==
    IF ~product.present THEN "Product not found"
    ELSE IF product.currentStock < item.quantity THEN "Insufficient stock"
    ELSE IF ~product.isActive THEN "Product is not available"
    ELSE ""

\* the checks without the comparison of currentStock with the quantity
CheckItem_NoStockCheck(product, item) ==
    IF ~product.present THEN "Product not found"
    ELSE IF ~product.isActive THEN "Product is not available"
    ELSE ""

\* the three checks of the validation loop on one line item, in the order
\* of the handler; "" when the item passes
CheckItem(product, item) ==
    IF ~product.present THEN "Product not found"
    ELSE IF ~product.isActive THEN "Product is not available"
    ELSE IF product.currentStock < item.quantity THEN "Insufficient stock"
    ELSE ""

\* const itemTotal = item.quantity * product.pricePerUnit
ItemTotal(quantity, pricePerUnit) == quantity * pricePerUnit

\* a final amount that forgets the discount
FinalAmount_NoDiscount(totalAmount, discount) == totalAmount

\* const finalAmount = totalAmount - discount
FinalAmount(totalAmount, discount) == totalAmount - discount

\* a validation loop that prices a line item as the body says
ValidateItem_ClientPrice(r) ==
    /\ req[r].pc = "validate"
    /\ LET item == req[r].items[req[r].idx]
           product == products[item.productId]
           itemTotal == ItemTotal(item.quantity, item.unitPrice)
           totalAmount == req[r].totalAmount + itemTotal
           saleItems == Append(req[r].saleItems,
                           [product |-> item.productId,
                            productName |-> product.name,
                            quantity |-> item.quantity,
                            unitPrice |-> item.unitPrice,
                            totalPrice |-> itemTotal])
           finalAmount == FinalAmount(totalAmount, req[r].discount)
       IN req' = [req EXCEPT ![r] =
              IF CheckItem(product, item) # ""
              THEN Respond(r, 400, CheckItem(product, item), req[r].idx, "")
              ELSE IF req[r].idx < Len(req[r].items)
              THEN [req[r] EXCEPT !.saleItems = saleItems,
                                  !.totalAmount = totalAmount,
                                  !.idx = req[r].idx + 1]
              ELSE IF finalAmount < 0
              THEN Respond(r, 400, "Discount cannot exceed total amount", 0, "")
              ELSE [req[r] EXCEPT !.saleItems = saleItems,
                                  !.totalAmount = totalAmount,
                                  !.finalAmount = finalAmount,
                                  !.idx = 0,
                                  !.attempts = 0,
                                  !.pc = "generate"]]
    /\ UNCHANGED <<products, sales, stockHistory>>
    /\ UNCHANGED shop
    /\ UNCHANGED aside
    /\ obs' = Observe(r)

\* Product.findById(item.productId) of the validation loop resolves; the
\* item is checked and priced; after the last item the discount is checked
\* and the sale-number loop is entered
ValidateItem(r) ==
    /\ req[r].pc = "validate"
    /\ LET item == req[r].items[req[r].idx]
           product == products[item.productId]
           itemTotal == ItemTotal(item.quantity, product.pricePerUnit)
           totalAmount == req[r].totalAmount + itemTotal
           saleItems == Append(req[r].saleItems,
                           [product |-> item.productId,
                            productName |-> product.name,
                            quantity |-> item.quantity,
                            unitPrice |-> product.pricePerUnit,
                            totalPrice |-> itemTotal])
           finalAmount == FinalAmount(totalAmount, req[r].discount)
       IN req' = [req EXCEPT ![r] =
              IF CheckItem(product, item) # ""
              THEN Respond(r, 400, CheckItem(product, item), req[r].idx, "")
              ELSE IF req[r].idx < Len(req[r].items)
              THEN [req[r] EXCEPT !.saleItems = saleItems,
                                  !.totalAmount = totalAmount,
                                  !.idx = req[r].idx + 1]
              ELSE IF finalAmount < 0
              THEN Respond(r, 400, "Discount cannot exceed total amount", 0, "")
              ELSE [req[r] EXCEPT !.saleItems = saleItems,
                                  !.totalAmount = totalAmount,
                                  !.finalAmount = finalAmount,
                                  !.idx = 0,
                                  !.attempts = 0,
                                  !.pc = "generate"]]
    /\ UNCHANGED <<products, sales, stockHistory>>
    /\ UNCHANGED shop
    /\ UNCHANGED aside
    /\ obs' = Observe(r)

\* a handler that goes from the sale number straight to the update loop
LoopTurn_SkipsSaleSave(r, random) ==
    LET saleNumber == MakeSaleNumber(Today, random)
        attempts == req[r].attempts + 1
        existingSale == ExistingSale(saleNumber)
    IN IF ~existingSale \/ ~(attempts < maxAttempts)
       THEN IF attempts >= maxAttempts
            THEN [Respond(r, 500, "Could not generate unique sale number", 0, "")
                     EXCEPT !.saleNumber = saleNumber]
            ELSE [req[r] EXCEPT !.pc = "findProduct", !.attempts = 0,
                                !.idx = 1, !.saleNumber = saleNumber]
       ELSE [req[r] EXCEPT !.attempts = attempts, !.saleNumber = saleNumber]

\* One turn of the do-while and, when the loop is left, the test that
\* follows it: the candidate drawn with `random` counts as an attempt and is
\* looked up; the loop is left when the candidate is free or the attempts
\* are used up.  The candidate of the last turn stays in saleNumber, also
\* when the request is refused.
LoopTurn(r, random) ==
    LET saleNumber == MakeSaleNumber(Today, random)
        attempts == req[r].attempts + 1
        existingSale == ExistingSale(saleNumber)
    IN IF ~existingSale \/ ~(attempts < maxAttempts)
       THEN IF attempts >= maxAttempts
            THEN [Respond(r, 500, "Could not generate unique sale number", 0, "")
                     EXCEPT !.saleNumber = saleNumber]
            ELSE [req[r] EXCEPT !.pc = "saveSale", !.attempts = 0,
                                !.saleNumber = saleNumber]
       ELSE [req[r] EXCEPT !.attempts = attempts, !.saleNumber = saleNumber]

\* new Sale({...}) as the handler builds it
NewSale(r) ==
    [id |-> r, saleNumber |-> req[r].saleNumber, items |-> req[r].saleItems,
     totalAmount |-> req[r].totalAmount, discount |-> req[r].discount,
     finalAmount |-> req[r].finalAmount, status |-> "completed",
     soldBy |-> UserOf(r)]

\* a handler that inserts the sale as soon as a candidate is drawn and only
\* then looks at the attempts
CheckSaleNumber_SavesFirst(r) ==
    /\ req[r].pc = "generate"
    /\ \E random \in Suffixes :
         /\ req' = [req EXCEPT ![r] = LoopTurn(r, random)]
         /\ sales' = IF ExistingSale(MakeSaleNumber(Today, random)) THEN sales
                     ELSE Append(sales, [NewSale(r) EXCEPT
                             !.saleNumber = MakeSaleNumber(Today, random)])
    /\ UNCHANGED <<products, stockHistory>>
    /\ UNCHANGED shop
    /\ UNCHANGED aside
    /\ obs' = Observe(r)

\* Sale.findOne({ saleNumber }) resolves.  The candidate is drawn by the
\* handler just before it issues the lookup; a draw depends on nothing the
\* other requests do, so it is taken here, with the lookup.
CheckSaleNumber(r) ==
    /\ req[r].pc = "generate"
    /\ \E random \in Suffixes : req' = [req EXCEPT ![r] = LoopTurn(r, random)]
    /\ UNCHANGED <<products, sales, stockHistory>>
    /\ UNCHANGED shop
    /\ UNCHANGED aside
    /\ obs' = Observe(r)

\* the validators of the Sale schema that depend on the request
ValidSale(sale) ==
    /\ sale.saleNumber # ""
    /\ sale.totalAmount >= 0
    /\ sale.discount >= 0
    /\ sale.finalAmount >= 0
    /\ \A i \in 1..Len(sale.items) :
          /\ sale.items[i].quantity > 0
          /\ sale.items[i].unitPrice >= 0
          /\ sale.items[i].totalPrice >= 0

\* a collection without the index
UniqueIndexAllows_NoIndex(sale) == TRUE

\* the unique index on saleNumber: may this document be inserted
UniqueIndexAllows(sale) == ~ExistingSale(sale.saleNumber)

\* sale.save(): validation, then the insert, which the unique index refuses
\* with a duplicate-key error when the number is taken; on either error the
\* outer catch answers 500
SaveSale(r) ==
    /\ req[r].pc = "saveSale"
    /\ IF ~ValidSale(NewSale(r))
       THEN /\ sales' = sales
            /\ req' = [req EXCEPT ![r] =
                 Respond(r, 500, "Server error during sale", 0, "ValidationError")]
       ELSE IF ~UniqueIndexAllows(NewSale(r))
       THEN /\ sales' = sales
            /\ req' = [req EXCEPT ![r] =
                 Respond(r, 500, "Server error during sale", 0, "DuplicateKey")]
       ELSE /\ sales' = Append(sales, NewSale(r))
            /\ req' = [req EXCEPT ![r].pc = "findProduct", ![r].idx = 1,
                                  ![r].saleNumber = ""]
    /\ UNCHANGED <<products, stockHistory>>
    /\ UNCHANGED shop
    /\ UNCHANGED aside
    /\ obs' = Observe(r)

\* a decrement by one unit whatever the quantity
Decrement_ByOne(currentStock, quantity) == currentStock - 1

\* product.currentStock -= item.quantity on the handler's copy
Decrement(currentStock, quantity) == currentStock - quantity

\* Product.findById(item.product) of the update loop resolves; the handler
\* keeps previousStock and subtracts the quantity on its copy
FindProduct(r) ==
    /\ req[r].pc = "findProduct"
    /\ LET item == req[r].saleItems[req[r].idx]
           product == products[item.product]
       IN req' = [req EXCEPT
                    ![r].previousStock = product.currentStock,
                    ![r].currentStock =
                        Decrement(product.currentStock, item.quantity),
                    ![r].pc = "saveProduct"]
    /\ UNCHANGED <<products, sales, stockHistory>>
    /\ UNCHANGED shop
    /\ UNCHANGED aside
    /\ obs' = Observe(r)

\* a schema without the minimum
ValidCurrentStock_None(n) == TRUE

\* the validator of Product.currentStock (min: 0)
ValidCurrentStock(n) == n >= 0

\* a product.save() that is refused when the stored currentStock is no
\* longer the value the handler has read
SaveProduct_VersionCheck(r) ==
    /\ req[r].pc = "saveProduct"
    /\ LET item == req[r].saleItems[req[r].idx]
       IN IF /\ ValidCurrentStock(req[r].currentStock)
             /\ products[item.product].currentStock = req[r].previousStock
          THEN /\ products' = [products EXCEPT
                      ![item.product].currentStock = req[r].currentStock]
               /\ req' = [req EXCEPT ![r].pc = "saveHistory"]
          ELSE /\ products' = products
               /\ req' = [req EXCEPT ![r] =
                    Respond(r, 500, "Server error during sale", req[r].idx,
                            "VersionError")]
    /\ UNCHANGED <<sales, stockHistory>>
    /\ UNCHANGED shop
    /\ UNCHANGED aside
    /\ obs' = Observe(r)

\* a handler that reports success when a decrement is refused
SaveProduct_PartialOk(r) ==
    /\ req[r].pc = "saveProduct"
    /\ LET item == req[r].saleItems[req[r].idx]
       IN IF ValidCurrentStock(req[r].currentStock)
          THEN /\ products' = [products EXCEPT
                      ![item.product].currentStock = req[r].currentStock]
               /\ req' = [req EXCEPT ![r].pc = "saveHistory"]
          ELSE /\ products' = products
               /\ req' = [req EXCEPT ![r] =
                    Respond(r, 201, "Sale completed successfully", 0, "")]
    /\ UNCHANGED <<sales, stockHistory>>
    /\ UNCHANGED shop
    /\ UNCHANGED aside
    /\ obs' = Observe(r)

\* product.save(): validates the changed path, then sets currentStock to the
\* value of the handler's copy
SaveProduct(r) ==
    /\ req[r].pc = "saveProduct"
    /\ LET item == req[r].saleItems[req[r].idx]
       IN IF ValidCurrentStock(req[r].currentStock)
          THEN /\ products' = [products EXCEPT
                      ![item.product].currentStock = req[r].currentStock]
               /\ req' = [req EXCEPT ![r].pc = "saveHistory"]
          ELSE /\ products' = products
               /\ req' = [req EXCEPT ![r] =
                    Respond(r, 500, "Server error during sale", req[r].idx,
                            "ValidationError")]
    /\ UNCHANGED <<sales, stockHistory>>
    /\ UNCHANGED shop
    /\ UNCHANGED aside
    /\ obs' = Observe(r)

\* an entry whose newStock repeats the stock read before the decrement
NewStockHistory_StaleNewStock(r) ==
    LET item == req[r].saleItems[req[r].idx]
    IN [product |-> item.product, action |-> "sold",
        quantity |-> item.quantity,
        previousStock |-> req[r].previousStock,
        newStock |-> req[r].previousStock,
        performedBy |-> UserOf(r), sale |-> r]

\* new StockHistory({...}) of the update loop
NewStockHistory(r) ==
    LET item == req[r].saleItems[req[r].idx]
    IN [product |-> item.product, action |-> "sold",
        quantity |-> item.quantity,
        previousStock |-> req[r].previousStock,
        newStock |-> req[r].currentStock,
        performedBy |-> UserOf(r), sale |-> r]

\* stockHistory.save(), then the next line item or the final lookup
SaveHistory(r) ==
    /\ req[r].pc = "saveHistory"
    /\ stockHistory' = Append(stockHistory, NewStockHistory(r))
    /\ req' = [req EXCEPT ![r] =
          IF req[r].idx < Len(req[r].saleItems)
          THEN [req[r] EXCEPT !.idx = req[r].idx + 1, !.pc = "findProduct",
                              !.previousStock = 0, !.currentStock = 0]
          ELSE [req[r] EXCEPT !.pc = "populate", !.idx = 0,
                              !.previousStock = 0, !.currentStock = 0]]
    /\ UNCHANGED <<products, sales>>
    /\ UNCHANGED shop
    /\ UNCHANGED aside
    /\ obs' = Observe(r)

\* Sale.findById(sale._id).populate(...) resolves and 201 is sent
Populate(r) ==
    /\ req[r].pc = "populate"
    /\ req' = [req EXCEPT ![r] =
                 Respond(r, 201, "Sale completed successfully", 0, "")]
    /\ UNCHANGED <<products, sales, stockHistory>>
    /\ UNCHANGED shop
    /\ UNCHANGED aside
    /\ obs' = Observe(r)

Next ==
    \E r \in Requests :
        \/ Start(r)
        \/ ValidateItem(r)
        \/ CheckSaleNumber(r)
        \/ SaveSale(r)
        \/ FindProduct(r)
        \/ SaveProduct(r)
        \/ SaveHistory(r)
        \/ Populate(r)
        \/ StoreFails(r)

Spec == Init /\ [][Next]_vars
\* a status that looks at the minimum level first
StockStatus_LowFirst(product) ==
    IF product.currentStock <= product.minStockLevel THEN "low_stock"
    ELSE IF product.currentStock <= 0 THEN "out_of_stock"
    ELSE "in_stock"

\* productSchema.virtual('stockStatus')
StockStatus(product) ==
    IF product.currentStock <= 0 THEN "out_of_stock"
    ELSE IF product.currentStock <= product.minStockLevel THEN "low_stock"
    ELSE "in_stock"

\* GET /products of the staff routes: Product.find({ isActive: true,
\* currentStock: { $gt: 0 } }) on the store prods
AvailableProducts(prods) ==
    {p \in ProductIds :
        prods[p].present /\ prods[p].isActive /\ prods[p].currentStock > 0}

\* ---- the admin product routes and the receipt route ------------------------

\* bounds of the admin requests
MaxOps == 2         \* admin requests that arrive, one after the other

Users == {"u1", "u2"}              \* staff users that ask for receipts
Names == {"Ankara", "ankara"}      \* names an admin gives a product
AddStocks == {0, 1}                \* totalStock of a POST /products body
AddPrice == 2                      \* pricePerUnit of a POST /products body
DefaultMinStockLevel == 10         \* minStockLevel = 10 of the destructuring

\* String.prototype.toLowerCase on the names of the model
ToLowerCase(name) ==
    CASE name = "Ankara" -> "ankara"
      [] name = "Silk" -> "silk"
      [] OTHER -> name

\* the bodies of PUT /products/:id: a new name, a new price, a new
\* totalStock, or a currentStock given directly
UpdateBodies ==
    {[name |-> "ankara"], [pricePerUnit |-> 3], [totalStock |-> 0],
     [totalStock |-> MaxStock + 1], [totalStock |-> 0 - 1],
     [currentStock |-> MaxStock]}

\* every admin step counts as another request for the sales in progress
Disturb == [q \in Requests |-> [obs[q] EXCEPT !.alone = FALSE]]

\* the admin request is answered; the handler's locals are gone
AdminRespond(status, message) ==
    [pc |-> "idle", n |-> adm.n, res |-> [status |-> status, message |-> message]]

\* Product.findOne({ name: name.toLowerCase(), isActive: true })
ExistingProduct(name) ==
    \E p \in ProductIds :
        /\ products[p].present
        /\ products[p].isActive
        /\ products[p].name = ToLowerCase(name)

\* POST /products arrives: validateRequest, then the lookup by name
\* resolves and the handler builds the new Product
AddProduct(name, totalStock) ==
    /\ adm.pc = "idle"
    /\ adm.n < MaxOps
    /\ IF totalStock <= 0
       THEN adm' = [AdminRespond(400, "Total stock must be greater than 0")
                       EXCEPT !.n = adm.n + 1]
       ELSE IF ExistingProduct(name)
       THEN adm' = [AdminRespond(400, "Product with this name already exists")
                       EXCEPT !.n = adm.n + 1]
       ELSE /\ \E p \in ProductIds : ~products[p].present
            /\ adm' = [pc |-> "addSave", n |-> adm.n + 1, res |-> adm.res,
                       id |-> CHOOSE p \in ProductIds : ~products[p].present,
                       doc |-> [present |-> TRUE, isActive |-> TRUE,
                                name |-> name, totalStock |-> totalStock,
                                currentStock |-> totalStock,
                                pricePerUnit |-> AddPrice,
                                minStockLevel |-> DefaultMinStockLevel]]
    /\ obs' = Disturb
    /\ UNCHANGED <<products, sales, stockHistory, req, fetch>>
    /\ UNCHANGED aside

\* product.save() of POST /products
AddProductSave ==
    /\ adm.pc = "addSave"
    /\ products' = [products EXCEPT ![adm.id] = adm.doc]
    /\ adm' = [adm EXCEPT !.pc = "addHistory"]
    /\ obs' = Disturb
    /\ UNCHANGED <<sales, stockHistory, req, fetch>>
    /\ UNCHANGED aside

\* stockHistory.save() of POST /products: the initial stock
AddProductHistory ==
    /\ adm.pc = "addHistory"
    /\ stockHistory' = Append(stockHistory,
          [product |-> adm.id, action |-> "added",
           quantity |-> adm.doc.totalStock,
           previousStock |-> 0, newStock |-> adm.doc.totalStock,
           performedBy |-> "admin", sale |-> 0])
    /\ adm' = [adm EXCEPT !.pc = "addPopulate"]
    /\ obs' = Disturb
    /\ UNCHANGED <<products, sales, req, fetch>>
    /\ UNCHANGED aside

\* Product.findById(product._id).populate(...) resolves and 201 is sent
AddProductRespond ==
    /\ adm.pc = "addPopulate"
    /\ adm' = AdminRespond(201, "Product added successfully")
    /\ obs' = Disturb
    /\ UNCHANGED <<products, sales, stockHistory, req, fetch>>
    /\ UNCHANGED aside

\* the optional validation of PUT /products/:id; "" when the body passes
UpdateError(updates) ==
    IF "totalStock" \in DOMAIN updates /\ updates.totalStock < 0
    THEN "Total stock must be non-negative"
    ELSE IF "pricePerUnit" \in DOMAIN updates /\ updates.pricePerUnit < 0
    THEN "Price per unit must be non-negative"
    ELSE ""

\* the difference the handler adds to currentStock: updates.totalStock -
\* product.totalStock when the body has another totalStock, else 0
StockChange(product, updates) ==
    IF "totalStock" \in DOMAIN updates
          /\ updates.totalStock # product.totalStock
    THEN updates.totalStock - product.totalStock
    ELSE 0

\* the assignment without the adjustment of currentStock
Assign_KeepsCurrent(product, updates) ==
    [k \in DOMAIN product |->
        IF k \in DOMAIN updates THEN updates[k] ELSE product[k]]

\* Object.keys(updates).forEach(key => product[key] = updates[key]), after
\* updates.currentStock was set for a changed totalStock
Assign(product, updates) ==
    [k \in DOMAIN product |->
        IF k = "currentStock" /\ StockChange(product, updates) # 0
        THEN product.currentStock + StockChange(product, updates)
        ELSE IF k \in DOMAIN updates THEN updates[k]
        ELSE product[k]]

\* PUT /products/:id arrives: the validation, then Product.findById
\* resolves and the handler changes its copy
UpdateProduct(id, updates) ==
    /\ adm.pc = "idle"
    /\ adm.n < MaxOps
    /\ adm' =
         IF UpdateError(updates) # ""
         THEN [AdminRespond(400, UpdateError(updates)) EXCEPT !.n = adm.n + 1]
         ELSE IF ~products[id].present
         THEN [AdminRespond(404, "Product not found") EXCEPT !.n = adm.n + 1]
         ELSE [pc |-> "updSave", n |-> adm.n + 1, res |-> adm.res, id |-> id,
               doc |-> Assign(products[id], updates),
               modified |-> {k \in DOMAIN products[id] :
                               Assign(products[id], updates)[k] # products[id][k]},
               previousStock |-> products[id].currentStock,
               stockChange |-> StockChange(products[id], updates)]
    /\ obs' = Disturb
    /\ UNCHANGED <<products, sales, stockHistory, req, fetch>>
    /\ UNCHANGED aside

\* the validators of the Product paths a save has to check (min: 0)
ValidProduct(doc, modified) ==
    /\ "totalStock" \in modified => doc.totalStock >= 0
    /\ "currentStock" \in modified => ValidCurrentStock(doc.currentStock)
    /\ "pricePerUnit" \in modified => doc.pricePerUnit >= 0

\* product.save() of PUT /products/:id: the changed paths are validated and
\* set; a refused save is answered 500
UpdateProductSave ==
    /\ adm.pc = "updSave"
    /\ IF ValidProduct(adm.doc, adm.modified)
       THEN /\ products' = [products EXCEPT ![adm.id] =
                  [k \in DOMAIN products[adm.id] |->
                      IF k \in adm.modified THEN adm.doc[k]
                      ELSE products[adm.id][k]]]
            /\ adm' = [adm EXCEPT !.pc = IF adm.stockChange # 0
                                         THEN "updHistory" ELSE "updPopulate"]
       ELSE /\ products' = products
            /\ adm' = AdminRespond(500, "Server error")
    /\ obs' = Disturb
    /\ UNCHANGED <<sales, stockHistory, req, fetch>>
    /\ UNCHANGED aside

\* stockHistory.save() of PUT /products/:id, when totalStock has changed
UpdateProductHistory ==
    /\ adm.pc = "updHistory"
    /\ stockHistory' = Append(stockHistory,
          [product |-> adm.id,
           action |-> IF adm.stockChange > 0 THEN "added" ELSE "adjusted",
           quantity |-> IF adm.stockChange > 0 THEN adm.stockChange
                        ELSE 0 - adm.stockChange,
           previousStock |-> adm.previousStock,
           newStock |-> adm.doc.currentStock,
           performedBy |-> "admin", sale |-> 0])
    /\ adm' = [adm EXCEPT !.pc = "updPopulate"]
    /\ obs' = Disturb
    /\ UNCHANGED <<products, sales, req, fetch>>
    /\ UNCHANGED aside

\* Product.findById(id).populate(...) resolves and the product is sent
UpdateProductRespond ==
    /\ adm.pc = "updPopulate"
    /\ adm' = AdminRespond(200, "Product updated successfully")
    /\ obs' = Disturb
    /\ UNCHANGED <<products, sales, stockHistory, req, fetch>>
    /\ UNCHANGED aside

\* DELETE /products/:id arrives and Product.findById resolves
DeleteProduct(id) ==
    /\ adm.pc = "idle"
    /\ adm.n < MaxOps
    /\ adm' =
         IF ~products[id].present
         THEN [AdminRespond(404, "Product not found") EXCEPT !.n = adm.n + 1]
         ELSE [pc |-> "delSave", n |-> adm.n + 1, res |-> adm.res, id |-> id,
               modified |-> IF products[id].isActive THEN {"isActive"} ELSE {}]
    /\ obs' = Disturb
    /\ UNCHANGED <<products, sales, stockHistory, req, fetch>>
    /\ UNCHANGED aside

\* a delete that removes the product from the store
DeleteProductSave_HardDelete ==
    /\ adm.pc = "delSave"
    /\ products' = [products EXCEPT ![adm.id].present = FALSE]
    /\ adm' = AdminRespond(200, "Product deleted successfully")
    /\ obs' = Disturb
    /\ UNCHANGED <<sales, stockHistory, req, fetch>>
    /\ UNCHANGED aside

\* a soft delete that also cancels the sales of the product
DeleteProductSave_CancelsSales ==
    /\ adm.pc = "delSave"
    /\ products' = [products EXCEPT ![adm.id].isActive = FALSE]
    /\ sales' = [i \in 1..Len(sales) |->
                   IF \E k \in 1..Len(sales[i].items) :
                         sales[i].items[k].product = adm.id
                   THEN [sales[i] EXCEPT !.status = "cancelled"]
                   ELSE sales[i]]
    /\ adm' = AdminRespond(200, "Product deleted successfully")
    /\ obs' = Disturb
    /\ UNCHANGED <<stockHistory, req, fetch>>
    /\ UNCHANGED aside

\* product.isActive = false; product.save() of DELETE /products/:id, and
\* the answer
DeleteProductSave ==
    /\ adm.pc = "delSave"
    /\ products' = [products EXCEPT ![adm.id].isActive =
                      IF "isActive" \in adm.modified THEN FALSE ELSE @]
    /\ adm' = AdminRespond(200, "Product deleted successfully")
    /\ obs' = Disturb
    /\ UNCHANGED <<sales, stockHistory, req, fetch>>
    /\ UNCHANGED aside

\* a lookup of the sale by its id alone
FindSale_AnyUser(id, user) ==
    SelectSeq(sales, LAMBDA s : s.id = id)

\* Sale.findOne({ _id: id, soldBy: req.user._id }) of a receipt request
FindSale(id, user) ==
    SelectSeq(sales, LAMBDA s : s.id = id /\ s.soldBy = user)

\* a receipt computed from the products as they are when it is asked for
Receipt_Live(sale) ==
    [saleNumber |-> sale.saleNumber,
     items |-> [i \in 1..Len(sale.items) |->
                  [product |-> [name |-> products[sale.items[i].product].name],
                   productName |-> products[sale.items[i].product].name,
                   quantity |-> sale.items[i].quantity,
                   unitPrice |-> products[sale.items[i].product].pricePerUnit,
                   totalPrice |-> sale.items[i].quantity
                      * products[sale.items[i].product].pricePerUnit]],
     totals |-> [subtotal |-> sale.totalAmount,
                 discount |-> sale.discount,
                 finalAmount |-> sale.finalAmount],
     soldBy |-> sale.soldBy]

\* the receipt the route builds from a Sale: the stored line items with
\* the product reference populated, and the stored totals
Receipt(sale) ==
    [saleNumber |-> sale.saleNumber,
     items |-> [i \in 1..Len(sale.items) |->
                  [product |-> [name |-> products[sale.items[i].product].name],
                   productName |-> sale.items[i].productName,
                   quantity |-> sale.items[i].quantity,
                   unitPrice |-> sale.items[i].unitPrice,
                   totalPrice |-> sale.items[i].totalPrice]],
     totals |-> [subtotal |-> sale.totalAmount,
                 discount |-> sale.discount,
                 finalAmount |-> sale.finalAmount],
     soldBy |-> sale.soldBy]

\* GET /sales/:id/receipt by a staff user: the receipt, or 404.  The
\* response is kept with the stores as they were (seen), and with the
\* response before it when that was a receipt of the same sale (prev).
GetReceipt(user, id) ==
    /\ fetch' =
         IF FindSale(id, user) = <<>>
         THEN [user |-> user, id |-> id, status |-> 404, nth |-> 0,
               message |-> "Sale not found"]
         ELSE [user |-> user, id |-> id, status |-> 200,
               nth |-> IF fetch.status = 200 /\ fetch.id = id THEN 2 ELSE 1,
               receipt |-> Receipt(FindSale(id, user)[1]),
               seen |-> [products |-> products, sales |-> Len(sales)],
               prev |-> IF fetch.status = 200 /\ fetch.id = id
                        THEN [receipt |-> fetch.receipt, seen |-> fetch.seen]
                        ELSE [receipt |-> <<>>, seen |-> <<>>]]
    /\ UNCHANGED <<products, sales, stockHistory, req, obs, adm>>
    /\ UNCHANGED aside

\* the shop when the admin starts: product p1 on sale, no second product
ShopInit == Init /\ ~products["p2"].present

\* the bodies of a POST /sales while the admin works: one line item at
\* most, or two line items of one unit of product p1
ShopItemLists ==
    ItemLists(2) \cup
      { [i \in 1..2 |-> [productId |-> "p1", quantity |-> 1, unitPrice |-> c]] :
          c \in ClientPrices }

\* a POST /sales of one of these bodies, with no discount
StartShop(r) == \E items \in ShopItemLists : Arrive(r, items, 0)

\* a step of the sale of request r, the store answering every operation
SaleStep(r) ==
    \/ StartShop(r)
    \/ ValidateItem(r)
    \/ CheckSaleNumber(r)
    \/ SaveSale(r)
    \/ FindProduct(r)
    \/ SaveProduct(r)
    \/ SaveHistory(r)
    \/ Populate(r)

\* a step of the admin request
AdminStep ==
    \/ \E name \in Names, totalStock \in AddStocks : AddProduct(name, totalStock)
    \/ AddProductSave
    \/ AddProductHistory
    \/ AddProductRespond
    \/ \E id \in ProductIds, updates \in UpdateBodies : UpdateProduct(id, updates)
    \/ UpdateProductSave
    \/ UpdateProductHistory
    \/ UpdateProductRespond
    \/ \E id \in ProductIds : DeleteProduct(id)
    \/ DeleteProductSave

\* sales of one staff user while the admin manages the products
AdminNext ==
    \/ SaleStep(2)
    \/ AdminStep

AdminSpec == ShopInit /\ [][AdminNext]_vars

\* the bodies of PUT /products/:id that change what a receipt shows of a
\* product: its name and its price
EditBodies == {[name |-> "ankara"], [pricePerUnit |-> 3]}

\* a step of the sale of request r: one line item, no discount
CounterSale(r) ==
    \/ \E items \in ItemLists(2) : items # <<>> /\ Arrive(r, items, 0)
    \/ ValidateItem(r)
    \/ CheckSaleNumber(r)
    \/ SaveSale(r)
    \/ FindProduct(r)
    \/ SaveProduct(r)
    \/ SaveHistory(r)
    \/ Populate(r)

\* the shop after the first sale: request 1, of user u1, has sold one unit
\* of product p1 and was answered 201; p1 is the only product
SoldInit ==
    LET before == [p \in ProductIds |->
                     IF p = "p1"
                     THEN [present |-> TRUE, isActive |-> TRUE,
                           name |-> "Ankara", totalStock |-> MaxStock,
                           currentStock |-> MaxStock, pricePerUnit |-> 1,
                           minStockLevel |-> 1]
                     ELSE [present |-> FALSE, isActive |-> TRUE,
                           name |-> "Silk", totalStock |-> 1,
                           currentStock |-> 1, pricePerUnit |-> 2,
                           minStockLevel |-> 1]]
    IN /\ products = [before EXCEPT !["p1"].currentStock = MaxStock - 1]
       /\ sales = << [id |-> 1, saleNumber |-> MakeSaleNumber(Today, 0),
                      items |-> << [product |-> "p1", productName |-> "Ankara",
                                    quantity |-> 1, unitPrice |-> 1,
                                    totalPrice |-> 1] >>,
                      totalAmount |-> 1, discount |-> 0, finalAmount |-> 1,
                      status |-> "completed", soldBy |-> UserOf(1)] >>
       /\ stockHistory = << [product |-> "p1", action |-> "sold",
                             quantity |-> 1, previousStock |-> MaxStock,
                             newStock |-> MaxStock - 1,
                             performedBy |-> UserOf(1), sale |-> 1] >>
       /\ req = [r \in Requests |->
                   IF r = 1
                   THEN [IdleReq EXCEPT
                           !.pc = "done",
                           !.items = << [productId |-> "p1", quantity |-> 1,
                                         unitPrice |-> 0] >>,
                           !.res = [status |-> 201, at |-> 0, error |-> "",
                                    message |-> "Sale completed successfully"]]
                   ELSE IdleReq]
       /\ obs = [r \in Requests |->
                   IF r = 1
                   THEN [before |-> before, alone |-> TRUE,
                         trace |-> <<"number", "sale", "stock", "history">>]
                   ELSE NoObs]
       /\ adm = IdleAdm
       /\ fetch = NoFetch
       /\ AsideIdle

\* another sale by user u2, product edits and soft deletes by the admin,
\* and receipt requests of both users
ReceiptNext ==
    \/ CounterSale(2)
    \/ \E id \in ProductIds, updates \in EditBodies : UpdateProduct(id, updates)
    \/ UpdateProductSave
    \/ UpdateProductRespond
    \/ \E id \in ProductIds : DeleteProduct(id)
    \/ DeleteProductSave
    \/ \E user \in Users, id \in Requests : GetReceipt(user, id)

ReceiptSpec == SoldInit /\ [][ReceiptNext]_vars

\* ---- the sale number on its own ---------------------------------------------

\* dates and random draws of a generation: getFullYear(), getMonth() + 1,
\* getDate() and Math.floor(Math.random() * 1000) at the ends and at the
\* places where the number of digits changes
GenYears == {2024, 2025}
GenMonths == {1, 9, 10, 12}
GenDays == {1, 9, 10, 31}
GenRandoms == {0, 9, 10, 99, 100, 999}

\* a Sale is about to get its number
NumberInit ==
    /\ StoreInit /\ ~products["p2"].present
    /\ gen \in [date : [year : GenYears, month : GenMonths, day : GenDays],
                random : GenRandoms, saleNumber : {""}, by : {""}]
    /\ users = NoUsers
    /\ ureq = NoUserRequests
    /\ catalog = <<>>
    /\ cart = <<>>

\* the body of the do-while of POST /sales: the number is built from the
\* date and the draw
GenerateSaleNumber ==
    /\ gen.by = ""
    /\ gen' = [gen EXCEPT !.saleNumber = MakeSaleNumber(gen.date, gen.random),
                          !.by = "route"]
    /\ UNCHANGED <<products, sales, stockHistory, req, obs, adm, fetch>>
    /\ UNCHANGED <<users, ureq, catalog, cart>>

\* saleSchema.pre('save'): a Sale that has no number gets one, a Sale that
\* has one keeps it
PreSave ==
    /\ gen.by \in {"", "route"}
    /\ gen' = IF gen.saleNumber = ""
              THEN [gen EXCEPT
                      !.saleNumber = MakeSaleNumber(gen.date, gen.random),
                      !.by = "hook"]
              ELSE [gen EXCEPT !.by = "saved"]
    /\ UNCHANGED <<products, sales, stockHistory, req, obs, adm, fetch>>
    /\ UNCHANGED <<users, ureq, catalog, cart>>

NumberNext ==
    \/ GenerateSaleNumber
    \/ PreSave

NumberSpec == NumberInit /\ [][NumberNext]_vars

\* ---- the user routes of the admin ------------------------------------------

\* the requests each admin sends to the user routes, at most
MaxUserOps == 2

\* the stored users, and an id no user has
UserIds == {"u1", "u2", "u3"}
TargetIds == UserIds \cup {"u0"}

\* the users whose requests are followed
Callers == {"u1", "u2"}

\* no request of a caller is running
IdleUserRequest == [pc |-> "idle", n |-> 0, status |-> 0, message |-> ""]

\* the handler has answered; its locals are gone
UserRespond(c, status, message) ==
    [pc |-> "idle", n |-> ureq[c].n, status |-> status, message |-> message]

\* router.use(authenticateToken); router.use(requireAdmin): the request of
\* user c is let through to the admin routes
RequireAdmin(c) == users[c].role = "admin" /\ users[c].isActive

\* User.countDocuments({ role: 'admin', isActive: true })
AdminCount ==
    Cardinality({u \in UserIds : users[u].role = "admin" /\ users[u].isActive})

\* two active admins and one active staff user; nothing else is going on
UserInit ==
    /\ StoreInit /\ ~products["p2"].present
    /\ gen = NoGen
    /\ catalog = <<>>
    /\ cart = <<>>
    /\ users = [u \in UserIds |->
                  [role |-> IF u \in Callers THEN "admin" ELSE "staff",
                   isActive |-> TRUE]]
    /\ ureq = [c \in Callers |-> IdleUserRequest]

\* PUT /users/:id/status of caller c arrives and User.findById resolves
UpdateUserStatus(c, id, isActive) ==
    /\ ureq[c].pc = "idle"
    /\ ureq[c].n < MaxUserOps
    /\ RequireAdmin(c)
    /\ ureq' = [ureq EXCEPT ![c] =
         IF id \notin UserIds
         THEN [UserRespond(c, 404, "User not found") EXCEPT !.n = @ + 1]
         ELSE IF id = c /\ ~isActive
         THEN [UserRespond(c, 400, "Cannot deactivate your own account")
                  EXCEPT !.n = @ + 1]
         ELSE [pc |-> "statusSave", n |-> ureq[c].n + 1,
               status |-> ureq[c].status, message |-> ureq[c].message,
               id |-> id, value |-> isActive,
               modified |-> users[id].isActive # isActive]]
    /\ UNCHANGED users
    /\ UNCHANGED <<products, sales, stockHistory, req, obs, adm, fetch>>
    /\ UNCHANGED <<gen, catalog, cart>>

\* user.save() of PUT /users/:id/status, then the answer
UpdateUserStatusSave(c) ==
    /\ ureq[c].pc = "statusSave"
    /\ users' = IF ureq[c].modified
                THEN [users EXCEPT ![ureq[c].id].isActive = ureq[c].value]
                ELSE users
    /\ ureq' = [ureq EXCEPT ![c] =
         UserRespond(c, 200, IF ureq[c].value
                             THEN "User activated successfully"
                             ELSE "User deactivated successfully")]
    /\ UNCHANGED <<products, sales, stockHistory, req, obs, adm, fetch>>
    /\ UNCHANGED <<gen, catalog, cart>>

\* PUT /users/:id/role of caller c arrives and User.findById resolves
UpdateUserRole(c, id, role) ==
    /\ ureq[c].pc = "idle"
    /\ ureq[c].n < MaxUserOps
    /\ RequireAdmin(c)
    /\ ureq' = [ureq EXCEPT ![c] =
         IF id \notin UserIds
         THEN [UserRespond(c, 404, "User not found") EXCEPT !.n = @ + 1]
         ELSE IF id = c
         THEN [UserRespond(c, 400, "Cannot change your own role")
                  EXCEPT !.n = @ + 1]
         ELSE [pc |-> IF users[id].role = "admin" /\ role = "staff"
                      THEN "roleCount" ELSE "roleSave",
               n |-> ureq[c].n + 1,
               status |-> ureq[c].status, message |-> ureq[c].message,
               id |-> id, value |-> role,
               modified |-> users[id].role # role]]
    /\ UNCHANGED users
    /\ UNCHANGED <<products, sales, stockHistory, req, obs, adm, fetch>>
    /\ UNCHANGED <<gen, catalog, cart>>

\* User.countDocuments resolves: the last active admin is not demoted
UpdateUserRoleCount(c) ==
    /\ ureq[c].pc = "roleCount"
    /\ ureq' = [ureq EXCEPT ![c] =
         IF AdminCount <= 1
         THEN UserRespond(c, 400, "Cannot demote the last active admin")
         ELSE [ureq[c] EXCEPT !.pc = "roleSave"]]
    /\ UNCHANGED users
    /\ UNCHANGED <<products, sales, stockHistory, req, obs, adm, fetch>>
    /\ UNCHANGED <<gen, catalog, cart>>

\* user.save() of PUT /users/:id/role, then the answer
UpdateUserRoleSave(c) ==
    /\ ureq[c].pc = "roleSave"
    /\ users' = IF ureq[c].modified
                THEN [users EXCEPT ![ureq[c].id].role = ureq[c].value]
                ELSE users
    /\ ureq' = [ureq EXCEPT ![c] =
         UserRespond(c, 200, IF ureq[c].value = "admin"
                             THEN "User role updated to admin successfully"
                             ELSE "User role updated to staff successfully")]
    /\ UNCHANGED <<products, sales, stockHistory, req, obs, adm, fetch>>
    /\ UNCHANGED <<gen, catalog, cart>>

UserNext ==
    \/ \E c \in Callers, id \in TargetIds, isActive \in BOOLEAN :
          UpdateUserStatus(c, id, isActive)
    \/ \E c \in Callers : UpdateUserStatusSave(c)
    \/ \E c \in Callers, id \in TargetIds, role \in {"admin", "staff"} :
          UpdateUserRole(c, id, role)
    \/ \E c \in Callers : UpdateUserRoleCount(c)
    \/ \E c \in Callers : UpdateUserRoleSave(c)

UserSpec == UserInit /\ [][UserNext]_vars

\* ---- the cart of the staff sales screen ----------------------------------

\* the fetched stocks are counted in halves of a unit (the admin form takes
\* totalStock in steps of 0.1, a sale any quantity from 0.1): a cart
\* quantity q stands against a stock s as q * StockScale against s
StockScale == 2

\* the currentStock a stored product may have when the screen opens, in
\* halves: nothing, half a unit, one unit, one and a half, MaxStock units
FetchedStocks == {0, 1, 2, 3, StockScale * MaxStock}

\* the quantities updateCartItem is called with
CartQuantities == (0 - 1)..(MaxStock + 1)

\* GET /api/staff/products: the stored products with currentStock > 0
ListedProducts(stored) == SelectSeq(stored, LAMBDA p : p.currentStock > 0)

\* the screen is about to be mounted: nothing fetched, the cart empty
CartInit ==
    /\ StoreInit /\ ~products["p2"].present
    /\ gen = NoGen
    /\ users = NoUsers
    /\ ureq = NoUserRequests
    /\ catalog = <<>>
    /\ cart = <<>>

\* fetchProducts on mount: setProducts(response.data)
fetchProducts ==
    /\ catalog = <<>>
    /\ cart = <<>>
    /\ \E s1 \in FetchedStocks, s2 \in FetchedStocks :
          catalog' = ListedProducts(
             <<[id |-> "p1", currentStock |-> s1, pricePerUnit |-> 1],
               [id |-> "p2", currentStock |-> s2, pricePerUnit |-> 2]>>)
    /\ UNCHANGED cart
    /\ UNCHANGED <<products, sales, stockHistory, req, obs, adm, fetch>>
    /\ UNCHANGED <<gen, users, ureq>>

\* cart.filter(item => item.productId !== productId)
CartWithout(items, productId) ==
    SelectSeq(items, LAMBDA item : item.productId # productId)

\* the cart updateCartItem sets: without the entry for a quantity <= 0,
\* else with the entry's quantity and totalPrice replaced unless the
\* quantity exceeds the stock of the entry's product
CartWith(items, productId, quantity) ==
    IF quantity <= 0
    THEN CartWithout(items, productId)
    ELSE [i \in 1..Len(items) |->
            IF items[i].productId = productId
            THEN IF quantity * StockScale > items[i].product.currentStock
                 THEN items[i]
                 ELSE [items[i] EXCEPT !.quantity = quantity,
                                       !.totalPrice = quantity * items[i].unitPrice]
            ELSE items[i]]

\* the fetched product with this id, as the screen shows it
Shown(id) == catalog[CHOOSE i \in 1..Len(catalog) : catalog[i].id = id]

\* addToCart(product) of the shown product with this id: one more of a
\* product in the cart unless the stock is reached, a new entry of
\* quantity 1 for a product not in the cart
addToCart(id) ==
    /\ \E i \in 1..Len(catalog) : catalog[i].id = id
    /\ LET product == Shown(id) IN
       cart' =
         IF \E i \in 1..Len(cart) : cart[i].productId = product.id
         THEN LET existingItem ==
                    cart[CHOOSE i \in 1..Len(cart) :
                            cart[i].productId = product.id]
              IN  IF existingItem.quantity * StockScale >= product.currentStock
                  THEN cart
                  ELSE CartWith(cart, product.id, existingItem.quantity + 1)
         ELSE Append(cart, [productId |-> product.id, product |-> product,
                            quantity |-> 1,
                            unitPrice |-> product.pricePerUnit,
                            totalPrice |-> product.pricePerUnit])
    /\ UNCHANGED catalog
    /\ UNCHANGED <<products, sales, stockHistory, req, obs, adm, fetch>>
    /\ UNCHANGED <<gen, users, ureq>>

\* updateCartItem(productId, quantity)
updateCartItem(productId, quantity) ==
    /\ catalog # <<>>
    /\ cart' = CartWith(cart, productId, quantity)
    /\ UNCHANGED catalog
    /\ UNCHANGED <<products, sales, stockHistory, req, obs, adm, fetch>>
    /\ UNCHANGED <<gen, users, ureq>>

\* removeFromCart(productId)
removeFromCart(productId) ==
    /\ catalog # <<>>
    /\ cart' = CartWithout(cart, productId)
    /\ UNCHANGED catalog
    /\ UNCHANGED <<products, sales, stockHistory, req, obs, adm, fetch>>
    /\ UNCHANGED <<gen, users, ureq>>

CartNext ==
    \/ fetchProducts
    \/ \E productId \in ProductIds, quantity \in CartQuantities :
          updateCartItem(productId, quantity)
    \/ \E id \in ProductIds : addToCart(id)
    \/ \E productId \in ProductIds : removeFromCart(productId)

CartSpec == CartInit /\ [][CartNext]_vars

\* ---- what the properties speak of ----------------------------------------

Done(r) == req[r].pc = "done"

\* no store operation of the request was refused by the store itself
NoStoreError(r) == req[r].res.error # "StoreError"

RECURSIVE SumQuantity(_, _)
\* the quantity a list of line items asks of product p in total
SumQuantity(items, p) ==
    IF items = <<>> THEN 0
    ELSE (IF Head(items).productId = p THEN Head(items).quantity ELSE 0)
         + SumQuantity(Tail(items), p)

\* the Sale records and the StockHistory entries request r has persisted
SalesOf(r) == SelectSeq(sales, LAMBDA s : s.id = r)
HistoryOf(r) == SelectSeq(stockHistory, LAMBDA h : h.sale = r)

\* request r has changed nothing in the three stores
NothingWritten(r) ==
    /\ obs[r].trace \in {<<>>, <<"number">>}
    /\ SalesOf(r) = <<>>
    /\ HistoryOf(r) = <<>>
    /\ obs[r].alone => products = obs[r].before

\* ---- C1 ------------------------------------------------------------------

\* C1 as stated: after a createSale that returned 201 with no other request
\* in between, for every line item the product's currentStock is its
\* currentStock before the call minus the quantity of that line item.
C1_StockAfterSalePerItem ==
    \A r \in Requests :
        Done(r) /\ req[r].res.status = 201 /\ obs[r].alone =>
            \A i \in 1..Len(req[r].items) :
                LET item == req[r].items[i]
                IN products[item.productId].currentStock =
                     obs[r].before[item.productId].currentStock - item.quantity

\* C1 amended: after a createSale that returned 201 with no other request in
\* between, every product's currentStock is its currentStock before the call
\* minus the sum of the quantities of the line items that name it.
C1_StockAfterSale ==
    \A r \in Requests :
        Done(r) /\ req[r].res.status = 201 /\ obs[r].alone =>
            \A p \in ProductIds :
                products[p].currentStock =
                    obs[r].before[p].currentStock - SumQuantity(req[r].items, p)

\* a sale of two line items on one product has returned 201
C1_Witness ==
    \E r \in Requests :
        /\ Done(r) /\ req[r].res.status = 201 /\ obs[r].alone
        /\ Len(req[r].items) = 2
        /\ req[r].items[1].productId = req[r].items[2].productId

\* ---- C2 ------------------------------------------------------------------

\* the total of a list of line items at the prices of the store
RECURSIVE TotalOf(_, _)
TotalOf(items, prods) ==
    IF items = <<>> THEN 0
    ELSE Head(items).quantity * prods[Head(items).productId].pricePerUnit
         + TotalOf(Tail(items), prods)

\* a precondition of createSale fails for the body of r on the store prods
PreconditionFails(r, prods) ==
    LET items == req[r].items
    IN \/ \E i \in 1..Len(items) :
             \/ ~prods[items[i].productId].present
             \/ ~prods[items[i].productId].isActive
             \/ items[i].quantity > prods[items[i].productId].currentStock
       \/ req[r].discount > TotalOf(items, prods)

\* C2: a createSale whose precondition fails (product missing, product
\* inactive, quantity above currentStock for one item, discount above the
\* total) is answered 400, and a request answered 400 has changed no
\* currentStock and persisted no Sale and no StockHistory entry.
C2_RejectedLeavesStores ==
    \A r \in Requests :
        /\ Done(r) /\ obs[r].alone /\ NoStoreError(r)
              /\ PreconditionFails(r, obs[r].before)
           => req[r].res.status = 400
        /\ Done(r) /\ req[r].res.status = 400 => NothingWritten(r)

\* a request of two line items was rejected on its second item
C2_Witness ==
    \E r \in Requests :
        /\ Done(r) /\ obs[r].alone /\ req[r].res.status = 400
        /\ Len(req[r].items) = 2 /\ req[r].res.at = 2
        /\ req[r].res.message = "Insufficient stock"
\* ---- C3 ------------------------------------------------------------------

\* the body of r has two line items on one product on sale, each quantity
\* within the currentStock of the product and their sum above it
TwoItemsAboveStock(r, prods) ==
    LET items == req[r].items
    IN /\ Len(items) = 2
       /\ items[1].productId = items[2].productId
       /\ prods[items[1].productId].present
       /\ prods[items[1].productId].isActive
       /\ items[1].quantity <= prods[items[1].productId].currentStock
       /\ items[2].quantity <= prods[items[1].productId].currentStock
       /\ items[1].quantity + items[2].quantity
             > prods[items[1].productId].currentStock

\* C3: a createSale with two line items on one product, each within
\* currentStock and together above it, is rejected and leaves currentStock
\* unchanged, no Sale persisted and no StockHistory entry appended.
C3_TwoItemsAboveStockRejected ==
    \A r \in Requests :
        Done(r) /\ obs[r].alone /\ NoStoreError(r)
           /\ TwoItemsAboveStock(r, obs[r].before)
        => /\ req[r].res.status # 201
           /\ NothingWritten(r)

\* ---- C4 ------------------------------------------------------------------

\* C4: no two persisted Sale records have the same saleNumber, whatever the
\* interleaving of the requests.
C4_SaleNumbersUnique ==
    \A i, j \in 1..Len(sales) :
        i # j => sales[i].saleNumber # sales[j].saleNumber

\* a request that chose the number of a sale persisted meanwhile was refused
\* by the index, and the other sale is in the store
C4_Witness ==
    /\ Len(sales) = 1
    /\ \E r \in Requests : Done(r) /\ req[r].res.error = "DuplicateKey"

\* ---- C5 ------------------------------------------------------------------

\* a turn of the sale-number loop of request r: a step that leaves the
\* lookup of a candidate, not by a failure of the store
LoopStep(r) ==
    /\ req[r].pc = "generate"
    /\ req'[r] # req[r]
    /\ req'[r].res.error # "StoreError"

\* C5: the generator tries at most 10 candidates and draws a new one only
\* when the candidate is in the Sale Store; a candidate the lookup finds
\* absent, on any of the 10 attempts, is the saleNumber the request goes on
\* to save; the request is refused for exhaustion exactly when the candidate
\* of the 10th attempt is taken as the 9 before it.
C5_FreeCandidateIsUsed ==
    [][\A r \in Requests :
          LoopStep(r) =>
            LET candidate == req'[r].saleNumber
                attempt == req[r].attempts + 1
                exhausted == req'[r].res.message
                                = "Could not generate unique sale number"
            IN /\ attempt <= maxAttempts
               /\ ~ExistingSale(candidate) => req'[r].pc = "saveSale"
               /\ ExistingSale(candidate) /\ attempt < maxAttempts
                     => req'[r].pc = "generate" /\ req'[r].attempts = attempt
               /\ exhausted <=> ExistingSale(candidate) /\ attempt = maxAttempts
      ]_vars

\* ---- C6 ------------------------------------------------------------------

\* C6: a createSale answered 500 because the sale-number generation was
\* exhausted or its lookup failed has persisted no Sale, changed no
\* currentStock and appended no StockHistory entry.
C6_ExhaustionLeavesStores ==
    \A r \in Requests :
        Done(r) /\ req[r].res.message \in
                     {"Could not generate unique sale number",
                      "Error generating sale number"}
        => /\ req[r].res.status = 500
           /\ obs[r].trace = <<>>
           /\ SalesOf(r) = <<>>
           /\ HistoryOf(r) = <<>>
           /\ obs[r].alone => products = obs[r].before

\* a request was refused because its generation was exhausted
C6_Witness ==
    \E r \in Requests :
        Done(r) /\ req[r].res.message = "Could not generate unique sale number"
\* ---- C7 ------------------------------------------------------------------

\* C7: a createSale that returned 201 has appended one StockHistory entry
\* per line item, in the order of the line items, each with action "sold",
\* the product and the quantity of its line item, newStock = previousStock -
\* quantity, and the id of the persisted Sale.
C7_OneHistoryPerItem ==
    \A r \in Requests :
        Done(r) /\ req[r].res.status = 201 =>
            LET h == HistoryOf(r)
                items == req[r].items
            IN /\ Len(SalesOf(r)) = 1
               /\ Len(h) = Len(items)
               /\ \A k \in 1..Len(h) :
                     /\ h[k].action = "sold"
                     /\ h[k].product = items[k].productId
                     /\ h[k].quantity = items[k].quantity
                     /\ h[k].newStock = h[k].previousStock - h[k].quantity
                     /\ h[k].sale = SalesOf(r)[1].id

\* a sale of two line items on different products has returned 201
C7_Witness ==
    \E r \in Requests :
        /\ Done(r) /\ req[r].res.status = 201
        /\ Len(req[r].items) = 2
        /\ req[r].items[1].productId # req[r].items[2].productId

\* ---- C8 ------------------------------------------------------------------

RECURSIVE LineTotal(_)
\* the sum of quantity x unitPrice over the line items of a persisted Sale
LineTotal(items) ==
    IF items = <<>> THEN 0
    ELSE Head(items).quantity * Head(items).unitPrice + LineTotal(Tail(items))

\* every line item of the body of r passes on the store prods
AllItemsPass(r, prods) ==
    \A i \in 1..Len(req[r].items) :
        LET item == req[r].items[i]
        IN /\ prods[item.productId].present
           /\ prods[item.productId].isActive
           /\ item.quantity <= prods[item.productId].currentStock

\* C8: every persisted Sale has finalAmount = sum of quantity x unitPrice of
\* its line items minus discount, and finalAmount >= 0; a request for which
\* that value is negative is answered "Discount cannot exceed total amount"
\* and has persisted nothing.
C8_FinalAmount ==
    /\ \A i \in 1..Len(sales) :
          /\ sales[i].finalAmount = LineTotal(sales[i].items) - sales[i].discount
          /\ sales[i].finalAmount >= 0
    /\ \A r \in Requests :
          Done(r) /\ obs[r].alone /\ NoStoreError(r)
             /\ req[r].items # <<>> /\ AllItemsPass(r, obs[r].before)
             /\ TotalOf(req[r].items, obs[r].before) - req[r].discount < 0
          => /\ req[r].res.status = 400
             /\ req[r].res.message = "Discount cannot exceed total amount"
             /\ NothingWritten(r)

\* a sale with a discount, on two line items of different prices, is persisted
C8_Witness ==
    \E i \in 1..Len(sales) :
        /\ sales[i].discount > 0
        /\ Len(sales[i].items) = 2
        /\ sales[i].items[1].unitPrice # sales[i].items[2].unitPrice

\* ---- C9 ------------------------------------------------------------------

\* the precondition a line item fails first, in the order: exists, is
\* active, has the stock; "" when it passes all three
ItemError(item, prods) ==
    CASE ~prods[item.productId].present -> "Product not found"
      [] prods[item.productId].present /\ ~prods[item.productId].isActive
            -> "Product is not available"
      [] prods[item.productId].present /\ prods[item.productId].isActive
            /\ prods[item.productId].currentStock < item.quantity
            -> "Insufficient stock"
      [] OTHER -> ""

\* the error createSale is to report for the body of r on the store prods,
\* with the line item it names: <<"", 0>> when every precondition holds
ExpectedError(r, prods) ==
    LET items == req[r].items
        failing == {i \in 1..Len(items) : ItemError(items[i], prods) # ""}
    IN IF items = <<>> THEN <<"At least one item is required", 0>>
       ELSE IF failing # {}
       THEN LET first == CHOOSE i \in failing : \A j \in failing : i <= j
            IN <<ItemError(items[first], prods), first>>
       ELSE IF TotalOf(items, prods) - req[r].discount < 0
       THEN <<"Discount cannot exceed total amount", 0>>
       ELSE <<"", 0>>

\* C9: createSale reports the first failing precondition in the order:
\* items non-empty; item by item in request order: product exists, is
\* active, has the stock; after every item has passed, the discount.  It is
\* answered 400 with that one error, and with no 400 when none fails.
C9_FirstFailureWins ==
    \A r \in Requests :
        Done(r) /\ obs[r].alone /\ NoStoreError(r) =>
            LET expected == ExpectedError(r, obs[r].before)
            IN IF expected[1] # ""
               THEN /\ req[r].res.status = 400
                    /\ req[r].res.message = expected[1]
                    /\ req[r].res.at = expected[2]
               ELSE req[r].res.status # 400

\* a request was rejected on its first line item while its second line item
\* fails another precondition
C9_Witness ==
    \E r \in Requests :
        /\ Done(r) /\ obs[r].alone /\ req[r].res.status = 400
        /\ Len(req[r].items) = 2 /\ req[r].res.at = 1
        /\ ItemError(req[r].items[2], obs[r].before)
              \notin {"", req[r].res.message}

\* ---- C10 -----------------------------------------------------------------

RECURSIVE ItemWrites(_)
\* the writes of the update loop for n line items
ItemWrites(n) ==
    IF n = 0 THEN <<>> ELSE <<"stock", "history">> \o ItemWrites(n - 1)

\* s is an initial part of t
IsPrefix(s, t) == Len(s) <= Len(t) /\ SubSeq(t, 1, Len(s)) = s

\* C10: within one request the sale number is chosen before the Sale is
\* persisted, the Sale is persisted before any currentStock is decremented,
\* and the StockHistory entry of a line item is appended after the decrement
\* of that item and before the decrement of the next.
C10_WriteOrder ==
    \A r \in Requests :
        /\ IsPrefix(obs[r].trace,
                    <<"number", "sale">> \o ItemWrites(Len(req[r].items)))
        /\ Len(SalesOf(r)) = Len(SelectSeq(obs[r].trace, LAMBDA e : e = "sale"))
        /\ Len(HistoryOf(r)) =
              Len(SelectSeq(obs[r].trace, LAMBDA e : e = "history"))

\* a request has made all the writes of a sale of two line items
C10_Witness ==
    \E r \in Requests :
        /\ Len(req[r].items) = 2
        /\ obs[r].trace = <<"number", "sale">> \o ItemWrites(2)

\* ---- C11 -----------------------------------------------------------------

\* the number of events e in the trace of request r
Count(r, e) == Len(SelectSeq(obs[r].trace, LAMBDA x : x = e))

\* C11: a createSale answered 500 after its Sale was persisted has rolled
\* nothing back: the Sale is in the store with status "completed", the
\* StockHistory entries of the line items done before the failure are in
\* the store, and the decrements made before the failure stay.
C11_NoRollback ==
    \A r \in Requests :
        Done(r) /\ req[r].res.status = 500 /\ Count(r, "sale") >= 1 =>
            LET h == HistoryOf(r)
                items == req[r].items
                saved == SubSeq(items, 1, Count(r, "stock"))
            IN /\ Len(SalesOf(r)) = 1
               /\ SalesOf(r)[1].status = "completed"
               /\ Len(h) = Count(r, "history")
               /\ \A k \in 1..Len(h) :
                     /\ h[k].product = items[k].productId
                     /\ h[k].quantity = items[k].quantity
               /\ obs[r].alone =>
                     \A p \in ProductIds :
                        products[p].currentStock =
                           obs[r].before[p].currentStock - SumQuantity(saved, p)

\* the store failed on the second line item of a request, after the Sale
\* and the writes of the first line item
C11_Witness ==
    \E r \in Requests :
        /\ Done(r) /\ req[r].res.status = 500 /\ obs[r].alone
        /\ req[r].res.error = "StoreError"
        /\ Len(req[r].items) = 2
        /\ obs[r].trace = <<"number", "sale", "stock", "history">>
        /\ products # obs[r].before

\* ---- C12 -----------------------------------------------------------------

\* C12: createSale reports no partial success: it answers 201 only after the
\* Sale, the decrement of every line item and the StockHistory entry of
\* every line item were written; every other answer is 400 or 500.
C12_NoPartialSuccess ==
    \A r \in Requests :
        /\ Done(r) <=> req[r].res.status # 0
        /\ Done(r) => req[r].res.status \in {201, 400, 500}
        /\ Done(r) /\ req[r].res.status = 201 =>
              /\ obs[r].trace =
                    <<"number", "sale">> \o ItemWrites(Len(req[r].items))
              /\ Len(SalesOf(r)) = 1
              /\ Len(HistoryOf(r)) = Len(req[r].items)

\* one request was answered 201 for two line items, another was answered
\* 500 with its Sale and a part of its writes in the stores
C12_Witness ==
    \E r, q \in Requests :
        /\ Done(r) /\ req[r].res.status = 201 /\ Len(req[r].items) = 2
        /\ Done(q) /\ req[q].res.status = 500 /\ Count(q, "sale") = 1

\* ---- C13 -----------------------------------------------------------------

\* C13: nothing but the min: 0 validator or a failure of the store stops the
\* decrement of a line item: product.save() stores the value computed from
\* the currentStock the handler has read, whatever another request has
\* stored in between, so two sales that each fit the stock and together
\* exceed it can both be completed.
C13_NoVersionCheck ==
    [][\A r \in Requests :
          /\ req[r].pc = "saveProduct"
          /\ req'[r] # req[r]
          /\ req'[r].res.error # "StoreError"
          /\ ValidCurrentStock(req[r].currentStock)
          => /\ req'[r].pc = "saveHistory"
             /\ products'[req[r].saleItems[req[r].idx].product].currentStock
                   = req[r].currentStock
      ]_vars

\* two sales of one product were both answered 201; both have validated
\* against the same currentStock, each quantity fits it and the sum exceeds it
C13_Witness ==
    \E r, q \in Requests, p \in ProductIds :
        /\ r # q
        /\ Done(r) /\ req[r].res.status = 201
        /\ Done(q) /\ req[q].res.status = 201
        /\ obs[r].before[p].currentStock = obs[q].before[p].currentStock
        /\ Len(req[r].items) = 1 /\ Len(req[q].items) = 1
        /\ req[r].items[1].productId = p /\ req[q].items[1].productId = p
        /\ req[r].items[1].quantity <= obs[r].before[p].currentStock
        /\ req[q].items[1].quantity <= obs[q].before[p].currentStock
        /\ req[r].items[1].quantity + req[q].items[1].quantity
              > obs[r].before[p].currentStock

\* ---- C14 -----------------------------------------------------------------

\* what a receipt shows of the sale itself: the totals and the line items
\* as they were stored
Snapshot(receipt) ==
    [totals |-> receipt.totals,
     items |-> [i \in 1..Len(receipt.items) |->
                  [productName |-> receipt.items[i].productName,
                   quantity |-> receipt.items[i].quantity,
                   unitPrice |-> receipt.items[i].unitPrice,
                   totalPrice |-> receipt.items[i].totalPrice]]]

\* C14: two receipts of the same sale show the same totals (subtotal,
\* discount, finalAmount) and the same productName, quantity, unitPrice and
\* totalPrice of every line item, whatever product edits, soft deletes and
\* other sales have happened between the two requests.
C14_ReceiptStable ==
    fetch.nth = 2 => Snapshot(fetch.receipt) = Snapshot(fetch.prev.receipt)

\* between two receipts of one sale another sale was persisted, and the
\* product of the sale was renamed, repriced or soft deleted
C14_Witness ==
    /\ fetch.nth = 2
    /\ fetch.prev.seen.sales < fetch.seen.sales
    /\ \E i \in 1..Len(fetch.receipt.items) :
          LET p == FindSale(fetch.id, fetch.user)[1].items[i].product
          IN \/ fetch.prev.seen.products[p].name # fetch.seen.products[p].name
             \/ fetch.prev.seen.products[p].pricePerUnit
                   # fetch.seen.products[p].pricePerUnit
             \/ fetch.prev.seen.products[p].isActive
                   # fetch.seen.products[p].isActive

\* ---- C15 -----------------------------------------------------------------

\* C15: GET /sales/:id/receipt answers with the receipt only when the sale
\* exists and its soldBy is the requesting user; in every other case it
\* answers the same 404 "Sale not found", whether the id exists or not.
C15_ReceiptOwnerOnly ==
    [][fetch' # fetch =>
         LET owned == {i \in 1..Len(sales) :
                         sales[i].id = fetch'.id /\ sales[i].soldBy = fetch'.user}
         IN IF owned # {}
            THEN /\ fetch'.status = 200
                 /\ \E i \in owned :
                       fetch'.receipt.saleNumber = sales[i].saleNumber
            ELSE fetch' = [user |-> fetch'.user, id |-> fetch'.id,
                           status |-> 404, nth |-> 0,
                           message |-> "Sale not found"]
      ]_vars

\* a user was answered 404 for the sale of another user
C15_Witness ==
    /\ fetch.status = 404
    /\ \E i \in 1..Len(sales) :
          sales[i].id = fetch.id /\ sales[i].soldBy # fetch.user

\* ---- C16 -----------------------------------------------------------------

RECURSIVE SumTotalPrice(_)
\* the sum of totalPrice over the line items of a Sale
SumTotalPrice(items) ==
    IF items = <<>> THEN 0
    ELSE Head(items).totalPrice + SumTotalPrice(Tail(items))

\* C16: a line item of a Sale gets as unitPrice the pricePerUnit the
\* validation loop reads from its product, and as totalPrice its quantity x
\* that unitPrice; the Sale is persisted with these line items and with
\* totalAmount the sum of their totalPrice; no price of the request body
\* enters them.
C16_ServerSidePrices ==
    [][\A r \in Requests :
          /\ req[r].pc = "validate"
                /\ Len(req'[r].saleItems) = Len(req[r].saleItems) + 1
             => LET item == req[r].items[req[r].idx]
                    line == req'[r].saleItems[Len(req'[r].saleItems)]
                IN /\ line.product = item.productId
                   /\ line.quantity = item.quantity
                   /\ line.unitPrice = products[item.productId].pricePerUnit
                   /\ line.totalPrice = item.quantity * line.unitPrice
          /\ req[r].pc = "saveSale" /\ Len(sales') = Len(sales) + 1
             => LET sale == sales'[Len(sales')]
                IN /\ sale.items = req[r].saleItems
                   /\ Len(sale.items) = Len(req[r].items)
                   /\ sale.totalAmount = SumTotalPrice(sale.items)
      ]_vars

\* a Sale of two line items of one product is persisted with two unit
\* prices, the price was changed between the two reads, and the body named
\* another price
C16_Witness ==
    \E i \in 1..Len(sales) :
        /\ Len(sales[i].items) = 2
        /\ sales[i].items[1].unitPrice # sales[i].items[2].unitPrice
        /\ sales[i].totalAmount
              = sales[i].items[1].unitPrice + sales[i].items[2].unitPrice
        /\ \A k \in 1..2 :
              req[sales[i].id].items[k].unitPrice # sales[i].items[k].unitPrice

\* ---- C17 -----------------------------------------------------------------

\* C17: every persisted Sale has status "completed", and no step of any
\* request changes or removes a persisted Sale: the Sale store only grows
\* at its end.
C17_SalesImmutable ==
    [][/\ IsPrefix(sales, sales')
       /\ \A i \in 1..Len(sales') : sales'[i].status = "completed"
      ]_vars

\* the product of a persisted Sale was repriced and soft deleted after the
\* sale
C17_Witness ==
    \E i \in 1..Len(sales) :
        LET line == sales[i].items[1]
        IN /\ ~products[line.product].isActive
           /\ products[line.product].pricePerUnit # line.unitPrice
           /\ adm.pc = "idle"

\* ---- C18 -----------------------------------------------------------------

\* the handler that has just stored the currentStock n of product p over
\* the value o goes on to append the entry o -> n
EntryPending(p, o, n) ==
    \/ \E r \in Requests :
          /\ req[r].pc = "saveProduct" /\ req'[r].pc = "saveHistory"
          /\ req[r].saleItems[req[r].idx].product = p
          /\ NewStockHistory(r).previousStock = o
          /\ NewStockHistory(r).newStock = n
    \/ /\ adm.pc = "updSave" /\ adm'.pc = "updHistory" /\ adm.id = p
       /\ adm.previousStock = o /\ adm.doc.currentStock = n
    \/ /\ adm.pc = "addSave" /\ adm'.pc = "addHistory" /\ adm.id = p
       /\ o = 0 /\ adm.doc.totalStock = n

\* C18: the StockHistory ledger is append-only and records every change of
\* a stock: a step of a product creation, a sale or an admin update that
\* changes the persisted currentStock of a product from p to n (from 0 for
\* a new product) is followed by the append of an entry with previousStock
\* p and newStock n, and no entry is changed or removed.
C18_LedgerRecordsEveryChange ==
    [][/\ IsPrefix(stockHistory, stockHistory')
       /\ \A p \in ProductIds :
             LET o == IF products[p].present THEN products[p].currentStock
                      ELSE 0
                 n == products'[p].currentStock
             IN products'[p].present /\ o # n => EntryPending(p, o, n)
       /\ Len(stockHistory') = Len(stockHistory) + 1 =>
             \/ \E r \in Requests :
                   /\ req[r].pc = "saveHistory"
                   /\ stockHistory'[Len(stockHistory')] = NewStockHistory(r)
             \/ /\ adm.pc \in {"addHistory", "updHistory"}
                /\ stockHistory'[Len(stockHistory')].product = adm.id
                /\ stockHistory'[Len(stockHistory')].newStock
                      = adm.doc.currentStock
      ]_vars

\* ---- C19 -----------------------------------------------------------------

C20_ActiveNamesUnique ==
    /\ \A p, q \in ProductIds :
          /\ p # q
          /\ products[p].present /\ products[p].isActive
          /\ products[q].present /\ products[q].isActive
          => ToLowerCase(products[p].name) # ToLowerCase(products[q].name)
    /\ adm.pc = "addSave" =>
          \A p \in ProductIds :
             products[p].present /\ products[p].isActive =>
                ToLowerCase(products[p].name) # ToLowerCase(adm.doc.name)

\* ---- C21 -----------------------------------------------------------------

\* the two and the three decimal digits of a number, digit by digit
Digits2(n) == ToString(n \div 10) \o ToString(n % 10)
Digits3(n) == ToString(n \div 100) \o Digits2(n % 100)

\* C21: a sale number is "RF", the 4-digit year, the 2-digit month, the
\* 2-digit day of the generation date and the 3-digit zero-padded suffix in
\* 000..999: 13 characters in all.
C21_SaleNumberFormat ==
    gen.saleNumber # "" =>
        /\ gen.date.year \in 1000..9999
        /\ gen.random \in 0..999
        /\ Len(gen.saleNumber) = 13
        /\ gen.saleNumber = "RF" \o ToString(gen.date.year)
                                \o Digits2(gen.date.month)
                                \o Digits2(gen.date.day)
                                \o Digits3(gen.random)

\* the route has made a number for a one-digit month, a one-digit day and
\* a one-digit suffix
C21_Witness ==
    /\ gen.by = "route"
    /\ gen.date.month < 10 /\ gen.date.day < 10 /\ gen.random < 10
    /\ gen.saleNumber # ""

\* ---- C22 -----------------------------------------------------------------

\* C22: the stockStatus of a product is out_of_stock when currentStock <= 0,
\* otherwise low_stock when currentStock <= minStockLevel, otherwise
\* in_stock; a sale that stores currentStock 0 leaves the product
\* out_of_stock, not low_stock, and out of the staff listing of available
\* products.
C22_StockStatus ==
    [][/\ \A p \in ProductIds :
             LET product == products'[p]
                 status == StockStatus(product)
             IN /\ status = "out_of_stock" <=> product.currentStock <= 0
                /\ status = "low_stock" <=>
                      /\ product.currentStock > 0
                      /\ product.currentStock <= product.minStockLevel
                /\ status = "in_stock" <=>
                      /\ product.currentStock > 0
                      /\ product.currentStock > product.minStockLevel
                /\ p \in AvailableProducts(products') <=>
                      /\ product.present /\ product.isActive
                      /\ product.currentStock > 0
       /\ \A r \in Requests :
             LET p == req[r].saleItems[req[r].idx].product
             IN req[r].pc = "saveProduct" /\ req'[r].pc = "saveHistory"
                   /\ req[r].currentStock = 0
                => /\ products'[p].currentStock = 0
                   /\ StockStatus(products'[p]) = "out_of_stock"
                   /\ p \notin AvailableProducts(products')
      ]_vars

\* a sale has brought a listed product, in_stock before it, to 0
C22_Witness ==
    \E r \in Requests, p \in ProductIds :
        /\ Done(r) /\ req[r].res.status = 201 /\ obs[r].alone
        /\ StockStatus(obs[r].before[p]) = "in_stock"
        /\ p \in AvailableProducts(obs[r].before)
        /\ products[p].currentStock = 0
        /\ products[p].minStockLevel >= 0

\* ---- C23 -----------------------------------------------------------------

\* C23: under every interleaving of sales and admin product updates every
\* product has currentStock >= 0 and every StockHistory entry has
\* previousStock >= 0 and newStock >= 0; a save that would store a negative
\* currentStock is refused with 500 and changes neither the product nor the
\* ledger.
C23_StockNeverNegative ==
    [][/\ \A p \in ProductIds : products'[p].currentStock >= 0
       /\ \A i \in 1..Len(stockHistory') :
             stockHistory'[i].previousStock >= 0 /\ stockHistory'[i].newStock >= 0
       /\ \A r \in Requests :
             req[r].pc = "saveProduct" /\ req'[r] # req[r]
                /\ req[r].currentStock < 0
             => /\ req'[r].res.status = 500
                /\ products' = products /\ stockHistory' = stockHistory
       /\ adm.pc = "updSave" /\ adm' # adm /\ adm.doc.currentStock < 0
             => /\ adm'.res.status = 500 /\ adm'.pc = "idle"
                /\ products' = products /\ stockHistory' = stockHistory
      ]_vars

\* the decrement of a sale was refused because the admin had lowered the
\* stock to 0 after the sale had validated its line item
C23_Witness ==
    \E r \in Requests :
        /\ Done(r) /\ req[r].res.error = "ValidationError"
        /\ adm.res.status = 200 /\ adm.pc = "idle"
        /\ \E p \in ProductIds : products[p].present /\ products[p].currentStock = 0

\* ---- C24 -----------------------------------------------------------------

RECURSIVE SoldQuantity(_, _)
\* the sum of the quantities of the "sold" entries of product p in a ledger
SoldQuantity(history, p) ==
    IF history = <<>> THEN 0
    ELSE (IF Head(history).product = p /\ Head(history).action = "sold"
          THEN Head(history).quantity ELSE 0)
         + SoldQuantity(Tail(history), p)

\* the currentStock of product p when the requests arrive
InitialStock(p) == IF p = "p1" THEN MaxStock ELSE 1

\* C24: no decrement is lost: when the concurrent createSale requests have
\* all been answered, none of them with 500, the initial currentStock of
\* every product minus its final currentStock is the sum of the quantities
\* of its "sold" StockHistory entries.
C24_NoLostDecrement ==
    (\A r \in Requests : Done(r) /\ req[r].res.status \in {201, 400}) =>
        \A p \in ProductIds :
            InitialStock(p) - products[p].currentStock
               = SoldQuantity(stockHistory, p)

\* ---- C25 -----------------------------------------------------------------

\* StockHistory.find({product: p}) in the order of writing
LedgerOf(p) == SelectSeq(stockHistory, LAMBDA e : e.product = p)

\* no request is between two of its store operations
Quiet ==
    /\ adm.pc = "idle"
    /\ \A r \in Requests : req[r].pc \in {"idle", "done"}

\* the products that POST /products created (the shop opens with p1 alone)
CreatedProducts == {p \in ProductIds : p # "p1" /\ products[p].present}

\* C25: between requests the ledger of a product created by POST /products
\* is an unbroken chain: its first entry is "added" from previousStock 0,
\* every later entry starts from the newStock of the entry before it, and
\* the newStock of its last entry is the stored currentStock.
C25_LedgerChain ==
    Quiet =>
        \A p \in CreatedProducts :
            LET ledger == LedgerOf(p) IN
            /\ ledger # <<>>
            /\ ledger[1].previousStock = 0
            /\ ledger[1].action = "added"
            /\ \A i \in 2..Len(ledger) :
                   ledger[i].previousStock = ledger[i - 1].newStock
            /\ ledger[Len(ledger)].newStock = products[p].currentStock

\* ---- C26 -----------------------------------------------------------------

\* C26: between requests every stored Product has currentStock <= totalStock.
C26_CurrentWithinTotal ==
    Quiet =>
        \A p \in ProductIds :
            products[p].present =>
                products[p].currentStock <= products[p].totalStock

\* ---- C27 -----------------------------------------------------------------

\* Math.abs
Abs(n) == IF n < 0 THEN 0 - n ELSE n

\* C27: a PUT /products/:id that changes totalStock by d # 0 stores the
\* currentStock it read plus d and then appends one entry with quantity |d|,
\* "added" for d > 0 and "adjusted" for d < 0, from the currentStock it read
\* to the one it stored; when that currentStock would be negative it is
\* answered 500 and neither the product nor the ledger changes; with d = 0
\* no entry is appended.
C27_AdminStockUpdate ==
    [][ /\ (adm.pc = "updSave" /\ adm'.pc # "updSave") =>
              LET id == adm.id
                  d  == adm.doc.totalStock - products[id].totalStock
              IN  /\ stockHistory' = stockHistory
                  /\ d # 0 =>
                        IF adm.previousStock + d >= 0
                        THEN /\ products'[id].totalStock
                                   = products[id].totalStock + d
                             /\ products'[id].currentStock
                                   = adm.previousStock + d
                             /\ products[id].currentStock = adm.previousStock
                                   => products'[id].currentStock
                                        - products[id].currentStock = d
                             /\ adm'.pc = "updHistory"
                        ELSE /\ products' = products
                             /\ adm'.pc = "idle"
                             /\ adm'.res.status = 500
                  /\ d = 0 => adm'.pc # "updHistory"
        /\ (adm.pc = "updHistory" /\ adm'.pc # "updHistory") =>
              LET d == adm.doc.currentStock - adm.previousStock
              IN  /\ d # 0
                  /\ products' = products
                  /\ adm'.pc = "updPopulate"
                  /\ Len(stockHistory') = Len(stockHistory) + 1
                  /\ SubSeq(stockHistory', 1, Len(stockHistory)) = stockHistory
                  /\ LET entry == stockHistory'[Len(stockHistory')]
                     IN  /\ entry.product = adm.id
                         /\ entry.quantity = Abs(d)
                         /\ entry.action = IF d > 0 THEN "added" ELSE "adjusted"
                         /\ entry.previousStock = adm.previousStock
                         /\ entry.newStock = adm.previousStock + d
                         /\ entry.newStock = adm.doc.currentStock
        /\ (adm.pc = "updPopulate" /\ adm'.pc # "updPopulate") =>
              /\ products' = products
              /\ stockHistory' = stockHistory
              /\ adm'.pc = "idle"
              /\ adm'.res.status = 200
    ]_vars

\* a lowering of totalStock was stored and its "adjusted" entry written
C27_Witness ==
    /\ adm.pc = "idle" /\ adm.res.status = 200
    /\ \E i \in 1..Len(stockHistory) :
          /\ stockHistory[i].action = "adjusted"
          /\ stockHistory[i].quantity = MaxStock
          /\ stockHistory[i].newStock = 0
          /\ products[stockHistory[i].product].totalStock = 0

\* ---- C28 -----------------------------------------------------------------

C29_CartWithinStock ==
    /\ \A i, j \in 1..Len(cart) :
          cart[i].productId = cart[j].productId => i = j
    /\ \A i \in 1..Len(cart) :
          /\ cart[i].quantity >= 1
          /\ cart[i].quantity * StockScale <= cart[i].product.currentStock
          /\ cart[i].totalPrice = cart[i].quantity * cart[i].unitPrice
====
